---- MODULE Spec2Model ----
(***************************************************************************)
(* Model of src/src/gemini_summary_async.py: the parallel PDF summariser.  *)
(*                                                                         *)
(* main() checks its configuration, then either runs the retry wrapper     *)
(* summarize_pdf_with_retry inline for one named PDF, or submits one       *)
(* wrapper call per PDF to a ThreadPoolExecutor and reports the futures    *)
(* as they complete.                                                       *)
(*                                                                         *)
(* Time: the wrapper only ever uses time.time() - start_time, so each      *)
(* wrapper invocation carries that difference as elapsed[i] (seconds).     *)
(* It advances by the latency of each summarize_pdf call and by            *)
(* BACKOFF_SLEEP_SECONDS for each time.sleep.                              *)
(***************************************************************************)
EXTENDS Integers, Sequences, FiniteSets, TLC

\* ------------------------------------------------------------------------
\* Program constants
MAX_WORKERS == 500
RETRY_LIMIT_SECONDS == 120
BACKOFF_SLEEP_SECONDS == 10

\* ------------------------------------------------------------------------
\* Bounds of the model
MaxItems == 2          \* at most this many *.pdf files in data/pdfs
MaxPool == 2           \* pool sizes 1..MaxPool are explored next to MAX_WORKERS

Items == 1..MaxItems
PoolSizes == (1..MaxPool) \cup {MAX_WORKERS}

\* Latency of one summarize_pdf call, in seconds: instantaneous, half the
\* retry budget, or the whole of it.
Latencies == {0, RETRY_LIMIT_SECONDS \div 2, RETRY_LIMIT_SECONDS}

\* Exception messages str(e), as the list of their words.
NoExc == <<>>
Messages == { <<"429", "Too Many Requests">>,
              <<"RESOURCE_EXHAUSTED">>,
              <<"500", "Internal">> }

\* File names, as the list of their dot-separated parts: ".pdf", ".pdf.pdf"
\* and "a.pdf", in the order sorted() puts them
FileNames == << <<"", "pdf">>, <<"", "pdf", "pdf">>, <<"a", "pdf">> >>

\* k-th smallest element of a set of positions
Nth(S, k) == CHOOSE n \in S : Cardinality({m \in S : m < n}) = k - 1

\* line 137: sorted(pdfs_dir.glob("*.pdf")) for each possible content of
\* data/pdfs, a set of files whose last part is "pdf"
Listings ==
    { [k \in 1..Cardinality(S) |-> FileNames[Nth(S, k)]] :
         S \in {T \in SUBSET (1..Len(FileNames)) : Cardinality(T) <= MaxItems} }

NoFile == [dir |-> "none", name |-> <<>>]

VARIABLES
    api_key,       \* os.getenv("GOOGLE_API_KEY") is set
    prompt_file,   \* "missing" | "empty" | "ok": state of src/prompt.txt
    pdf_arg,       \* "all" | "name": args.pdf
    is_file,       \* the named PDF exists (single-item path)
    pdf_files,     \* len(sorted(pdfs_dir.glob("*.pdf")))
    pdf_names,     \* the file name of each item: the sorted list, or the named PDF
    max_workers,   \* size of the ThreadPoolExecutor
    main_pc,       \* position of main()
    exit_code,     \* -1 while running, else the process exit status
    executor,      \* "none" | "open" | "shutdown"
    submitted,     \* number of executor.submit calls made so far
    queue,         \* the executor's FIFO work queue (items not yet started)
    pc,            \* per item: "none" | "queued" | "call" | "sleep" | "Success" | "Failure"
    attempt,       \* per item: the wrapper's local `attempt`
    elapsed,       \* per item: time.time() - start_time at the last reading
    calls,         \* per item: summarize_pdf invocations started
    sleeps,        \* per item: time.sleep(BACKOFF_SLEEP_SECONDS) calls finished
    exc,           \* per item: message of the last exception summarize_pdf raised
    outcome,       \* per item: what the wrapper returned or raised
    writes,        \* per item: number of times its output file was written
    yield_set,     \* as_completed: futures already finished when it was called, not yet yielded
    pending,       \* as_completed: futures that were not finished and are not yet yielded
    waiter,        \* as_completed: futures finished since, in completion order
    completed,     \* the items in the order their wrappers ended; 0 marks the call of as_completed
    stdout         \* the printed notices, in order

cfg_vars == <<api_key, prompt_file, pdf_arg, is_file, pdf_files, pdf_names, max_workers>>
item_vars == <<pc, attempt, elapsed, calls, sleeps, exc, outcome, writes>>
pool_vars == <<executor, submitted, queue>>
report_vars == <<yield_set, pending, waiter, completed, stdout>>
vars == <<cfg_vars, main_pc, exit_code, pool_vars, item_vars, report_vars>>

\* ------------------------------------------------------------------------
\* Helpers

\* The latencies explored: every call of the pooled run takes half the retry
\* budget, so that a pooled item retries at most once; the single-item path
\* explores every latency, and with it the chain of instantaneous retries
\* (one call every BACKOFF_SLEEP_SECONDS until the budget is spent) and the
\* call that outlasts the budget.
Durations == IF pdf_arg = "all" THEN {RETRY_LIMIT_SECONDS \div 2} ELSE Latencies

\* `"429" in msg`: substring test on the message
Contains(msg, word) == \E k \in 1..Len(msg) : msg[k] = word

\* `"429" or "RESOURCE_EXHAUSTED" in msg`: a condition that is always true
IsRetryableTruthy(msg) == TRUE

\* lines 89: the rate-limit classification
IsRetryable(msg) == Contains(msg, "429") \/ Contains(msg, "RESOURCE_EXHAUSTED")

\* the budget test written with <= instead of <
ShouldRetryInclusive(msg, el) ==
    (Contains(msg, "429") \/ Contains(msg, "RESOURCE_EXHAUSTED")) /\ el <= RETRY_LIMIT_SECONDS

\* a single-item path that calls summarize_pdf without retrying, as
\* gemini_summary.py does
ShouldRetryBatchOnly(msg, el) ==
    /\ pdf_arg = "all"
    /\ Contains(msg, "429") \/ Contains(msg, "RESOURCE_EXHAUSTED")
    /\ el < RETRY_LIMIT_SECONDS

\* the two conditions of the retry branch joined by `or`
ShouldRetryEither(msg, el) ==
    (Contains(msg, "429") \/ Contains(msg, "RESOURCE_EXHAUSTED")) \/ el < RETRY_LIMIT_SECONDS

\* a wrapper that retries only if the budget outlasts the backoff sleep
ShouldRetryAfterSleep(msg, el) ==
    IsRetryable(msg) /\ el + BACKOFF_SLEEP_SECONDS < RETRY_LIMIT_SECONDS

\* lines 89-90: the condition of the retry branch; el is time.time() - start_time
ShouldRetry(msg, el) == IsRetryable(msg) /\ el < RETRY_LIMIT_SECONDS

\* pathlib's Path.stem: the name without its last suffix; a name has no
\* suffix when its last dot is its first character or its last
Stem(name) ==
    IF /\ Len(name) >= 2
       /\ name[Len(name)] # ""
       /\ ~(Len(name) = 2 /\ name[1] = "")
    THEN SubSeq(name, 1, Len(name) - 1)
    ELSE name

\* lines 49-50: output_dir / f"{pdf_stem}.md"
OutputFile(i) == [dir |-> "llm_summaries", name |-> Append(Stem(pdf_names[i]), "md")]

\* lines 84-85: the wrapper returns the output file
Success(i) == [kind |-> "Success", file |-> OutputFile(i), exc |-> NoExc]

\* a wrapper that raises an error of its own once the budget is spent
FailureTimeout(msg) ==
    [kind |-> "Failure", file |-> NoFile,
     exc |-> IF IsRetryable(msg) THEN <<"TimeoutError">> ELSE msg]

\* lines 94-96: the bare `raise` re-raises the exception just caught
Failure(msg) == [kind |-> "Failure", file |-> NoFile, exc |-> msg]

\* a future that is not finished
NoOutcome == [kind |-> "none", file |-> NoFile, exc |-> NoExc]

\* the wrapper has returned or raised
Terminal(i) == pc[i] \in {"Success", "Failure"}

\* a thread that gives its slot back while it sleeps
RunningCallOnly(i) == pc[i] = "call"

\* lines 82-93: the wrapper is inside its loop, in a call or in time.sleep
Running(i) == pc[i] \in {"call", "sleep"}

\* a printed line: the format string's tag, and the values interpolated
Line(tag, i, o, nums) == [tag |-> tag, item |-> i, file |-> o.file, exc |-> o.exc, args |-> nums]

\* threads of the pool occupied by a wrapper invocation
Busy == Cardinality({i \in Items : Running(i)})

\* a pool that starts a thread for every submitted item
CanStartUnbounded == TRUE

\* ThreadPoolExecutor: a queued work item starts when a thread is free
CanStart == Busy < max_workers

\* as_completed: the futures that are already finished when it is called
FinishedNow == {i \in Items : Terminal(i)}

\* ------------------------------------------------------------------------
Init ==
    /\ api_key \in BOOLEAN
    /\ prompt_file \in {"missing", "empty", "ok"}
    /\ pdf_arg \in {"all", "name"}
    /\ is_file \in BOOLEAN
    /\ pdf_files \in 0..MaxItems
    /\ pdf_names \in Listings
    /\ max_workers \in PoolSizes
    \* inputs the chosen path never reads are fixed
    /\ pdf_arg = "name" => pdf_files = 0 /\ max_workers = MAX_WORKERS
    /\ pdf_arg = "name" => pdf_names = <<FileNames[Len(FileNames)]>>
    /\ pdf_arg = "all" => is_file /\ Len(pdf_names) = pdf_files
    /\ main_pc = "start"
    /\ exit_code = -1
    /\ executor = "none"
    /\ submitted = 0
    /\ queue = <<>>
    /\ pc = [i \in Items |-> "none"]
    /\ attempt = [i \in Items |-> 0]
    /\ elapsed = [i \in Items |-> 0]
    /\ calls = [i \in Items |-> 0]
    /\ sleeps = [i \in Items |-> 0]
    /\ exc = [i \in Items |-> NoExc]
    /\ outcome = [i \in Items |-> NoOutcome]
    /\ writes = [i \in Items |-> 0]
    /\ yield_set = {}
    /\ pending = {}
    /\ waiter = <<>>
    /\ completed = <<>>
    /\ stdout = <<>>

\* line 113: `if not api_key`
KeyMissing == ~api_key

\* the existence check of the named PDF left out
PdfNotFoundIgnored == FALSE

\* line 126: `if not pdf_path.is_file()`
PdfNotFound == ~is_file

\* the empty-list check left out
NoPdfFilesIgnored == FALSE

\* line 138: `if not pdf_files`
NoPdfFiles == pdf_files = 0

\* sys.exit(code) after printing one line
Exit(tag, code) ==
    /\ stdout' = Append(stdout, Line(tag, 0, NoOutcome, <<>>))
    /\ exit_code' = code
    /\ main_pc' = "exited"

\* main, lines 110-118
CheckApiKey ==
    /\ main_pc = "start"
    /\ IF KeyMissing
       THEN Exit("Error: GOOGLE_API_KEY is not set", 1)
       ELSE main_pc' = "load_prompt" /\ UNCHANGED <<exit_code, stdout>>
    /\ UNCHANGED <<cfg_vars, pool_vars, item_vars, yield_set, pending, waiter, completed>>

\* load_prompt, lines 33-42, called from main line 122
LoadPrompt ==
    /\ main_pc = "load_prompt"
    /\ IF prompt_file = "missing"
       THEN Exit("Prompt file not found", 1)
       ELSE IF prompt_file = "empty"
       THEN Exit("Prompt file is empty", 1)
       ELSE main_pc' = "dispatch" /\ UNCHANGED <<exit_code, stdout>>
    /\ UNCHANGED <<cfg_vars, pool_vars, item_vars, yield_set, pending, waiter, completed>>

\* a wrapper that backs off before its first call
EnterWrapperSleepFirst(i) ==
    /\ pc' = [pc EXCEPT ![i] = "sleep"]
    /\ attempt' = [attempt EXCEPT ![i] = 1]
    /\ elapsed' = [elapsed EXCEPT ![i] = 0]
    /\ UNCHANGED <<calls, sleeps, exc, outcome, writes>>

\* summarize_pdf_with_retry, lines 80-81: entry of the wrapper for item i
EnterWrapper(i) ==
    /\ pc' = [pc EXCEPT ![i] = "call"]
    /\ attempt' = [attempt EXCEPT ![i] = 1]
    /\ elapsed' = [elapsed EXCEPT ![i] = 0]
    /\ calls' = [calls EXCEPT ![i] = 1]
    /\ UNCHANGED <<sleeps, exc, outcome, writes>>

\* main, lines 125-129 and 131: the single-item path
SingleStart ==
    /\ main_pc = "dispatch"
    /\ pdf_arg # "all"
    /\ IF PdfNotFound
       THEN Exit("PDF not found", 1) /\ UNCHANGED item_vars
       ELSE /\ EnterWrapper(1)
            /\ main_pc' = "single"
            /\ UNCHANGED <<exit_code, stdout>>
    /\ UNCHANGED <<cfg_vars, pool_vars, yield_set, pending, waiter, completed>>

\* main, lines 132-135: the single-item path prints the outcome and returns
SingleReport ==
    /\ main_pc = "single"
    /\ Terminal(1)
    /\ stdout' = Append(stdout,
                   IF pc[1] = "Success"
                   THEN Line("Summary saved to", 1, outcome[1], <<>>)
                   ELSE Line("Error summarizing", 1, outcome[1], <<>>))
    /\ exit_code' = 0
    /\ main_pc' = "exited"
    /\ UNCHANGED <<cfg_vars, pool_vars, item_vars, yield_set, pending, waiter, completed>>

\* main, lines 138-145: enumerate the PDFs, create the pool
Glob ==
    /\ main_pc = "dispatch"
    /\ pdf_arg = "all"
    /\ IF NoPdfFiles
       THEN Exit("No PDF files found", 0) /\ UNCHANGED executor
       ELSE /\ stdout' = Append(stdout, Line("Found PDFs", 0, NoOutcome, <<pdf_files, max_workers>>))
            /\ executor' = "open"
            /\ main_pc' = "submit"
            /\ UNCHANGED exit_code
    /\ UNCHANGED <<cfg_vars, submitted, queue, item_vars, yield_set, pending, waiter, completed>>

\* a submit loop that hands every PDF to the pool twice
EnqueueTwice(q, i) == Append(Append(q, i), i)

\* line 147: executor.submit puts one work item on the pool's queue
Enqueue(q, i) == Append(q, i)

\* main, lines 146-148: executor.submit for the next PDF of the sorted list
Submit ==
    /\ main_pc = "submit"
    /\ submitted < pdf_files
    /\ submitted' = submitted + 1
    /\ queue' = Enqueue(queue, submitted + 1)
    /\ pc' = [pc EXCEPT ![submitted + 1] = "queued"]
    /\ UNCHANGED <<cfg_vars, main_pc, exit_code, executor, report_vars,
                   attempt, elapsed, calls, sleeps, exc, outcome, writes>>

\* ThreadPoolExecutor worker: take the head of the queue and enter the wrapper
WorkerTake ==
    /\ executor = "open"
    /\ queue # <<>>
    /\ CanStart
    /\ EnterWrapper(Head(queue))
    /\ queue' = Tail(queue)
    /\ UNCHANGED <<cfg_vars, main_pc, exit_code, executor, submitted, report_vars>>

\* a waiter whose list is read newest first
NotifyNewestFirst(i) ==
    /\ waiter' = IF main_pc = "collect" THEN <<i>> \o waiter ELSE waiter
    /\ completed' = Append(completed, i)

\* a waiter that misses the futures that finish once it is installed
NotifyLost(i) ==
    /\ waiter' = waiter
    /\ completed' = Append(completed, i)

\* Future.set_result / set_exception: the worker thread completes the future
\* as soon as the wrapper has returned or raised, and the finished future is
\* handed to the waiter as_completed installed, if it is installed. The
\* wrapper's last step and the completion of its future are taken as one step.
Notify(i) ==
    /\ waiter' = IF main_pc = "collect" THEN Append(waiter, i) ELSE waiter
    /\ completed' = Append(completed, i)

\* summarize_pdf (lines 44-74) returns: the summary is written, the wrapper
\* returns the output file (lines 84-85)
CallReturns(i, d) ==
    /\ pc[i] = "call"
    /\ pc' = [pc EXCEPT ![i] = "Success"]
    /\ elapsed' = [elapsed EXCEPT ![i] = @ + d]
    /\ writes' = [writes EXCEPT ![i] = @ + 1]
    /\ outcome' = [outcome EXCEPT ![i] = Success(i)]
    /\ Notify(i)
    /\ UNCHANGED <<attempt, calls, sleeps, exc>>

\* summarize_pdf raises in the remote call (lines 56-68), and the handler
\* of the wrapper runs (lines 86-96)
CallRaises(i, d, msg) ==
    /\ pc[i] = "call"
    /\ elapsed' = [elapsed EXCEPT ![i] = @ + d]
    /\ exc' = [exc EXCEPT ![i] = msg]
    /\ IF ShouldRetry(msg, elapsed[i] + d)
       THEN /\ attempt' = [attempt EXCEPT ![i] = @ + 1]
            /\ pc' = [pc EXCEPT ![i] = "sleep"]
            /\ UNCHANGED <<outcome, waiter, completed>>
       ELSE /\ pc' = [pc EXCEPT ![i] = "Failure"]
            /\ outcome' = [outcome EXCEPT ![i] = Failure(msg)]
            /\ Notify(i)
            /\ UNCHANGED attempt
    /\ UNCHANGED <<calls, sleeps, writes>>

\* one summarize_pdf call of item i ends, whichever thread runs it
SummarizePdf(i) ==
    /\ \E d \in Durations :
          \/ CallReturns(i, d)
          \/ \E msg \in Messages : CallRaises(i, d, msg)
    /\ UNCHANGED <<cfg_vars, main_pc, exit_code, pool_vars, yield_set, pending, stdout>>

\* line 93 ends: time.sleep returns and the loop calls summarize_pdf again
BackoffDone(i) ==
    /\ pc[i] = "sleep"
    /\ pc' = [pc EXCEPT ![i] = "call"]
    /\ elapsed' = [elapsed EXCEPT ![i] = @ + BACKOFF_SLEEP_SECONDS]
    /\ sleeps' = [sleeps EXCEPT ![i] = @ + 1]
    /\ calls' = [calls EXCEPT ![i] = @ + 1]
    /\ UNCHANGED <<cfg_vars, main_pc, exit_code, pool_vars, report_vars,
                   attempt, exc, outcome, writes>>

\* main, line 150: as_completed(futures) is called once every PDF is
\* submitted; it takes the finished futures aside and installs its waiter
AsCompleted ==
    /\ main_pc = "submit"
    /\ submitted = pdf_files
    /\ main_pc' = "collect"
    /\ yield_set' = FinishedNow
    /\ pending' = (1..pdf_files) \ FinishedNow
    /\ waiter' = <<>>
    /\ completed' = Append(completed, 0)
    /\ UNCHANGED <<cfg_vars, exit_code, pool_vars, item_vars, stdout>>

\* a reporter that prints the success notice whatever fut.result() does
ReportLineAlwaysOk(i) == Line("ok", i, outcome[i], <<>>)

\* lines 152-156: fut.result() returns or raises, and one notice is printed
ReportLine(i) ==
    IF outcome[i].kind = "Success"
    THEN Line("ok", i, outcome[i], <<>>)
    ELSE Line("err", i, outcome[i], <<>>)

\* a reporter loop without the except clause: the item's error leaves main
AfterNoticeAbort(i) ==
    IF outcome[i].kind = "Failure"
    THEN main_pc' = "exited" /\ exit_code' = 1
    ELSE UNCHANGED <<main_pc, exit_code>>

\* lines 155-156: the except clause swallows the item's error, the loop goes on
AfterNotice(i) == UNCHANGED <<main_pc, exit_code>>

\* main, lines 150-156: one iteration of the reporter loop. as_completed
\* yields the futures it took aside first, in no particular order, then the
\* futures its waiter collected, oldest first
Report ==
    /\ main_pc = "collect"
    /\ \/ \E i \in yield_set :
            /\ yield_set' = yield_set \ {i}
            /\ stdout' = Append(stdout, ReportLine(i))
            /\ AfterNotice(i)
            /\ UNCHANGED <<pending, waiter>>
       \/ /\ yield_set = {}
          /\ waiter # <<>>
          /\ waiter' = Tail(waiter)
          /\ pending' = pending \ {Head(waiter)}
          /\ stdout' = Append(stdout, ReportLine(Head(waiter)))
          /\ AfterNotice(Head(waiter))
          /\ UNCHANGED yield_set
    /\ UNCHANGED <<cfg_vars, pool_vars, item_vars, completed>>

\* a reporter that stops after the futures that were finished at the start
ExhaustedEarly == yield_set = {}

\* a reporter that stops once no item waits for a thread
ExhaustedWhenQueueEmpty == yield_set = {} /\ queue = <<>>

\* as_completed stops once it has yielded every future it was given
Exhausted == yield_set = {} /\ pending = {}

\* main, lines 145 (end of the with block) and 158: shutdown, final notice
Done ==
    /\ main_pc = "collect"
    /\ Exhausted
    /\ executor' = "shutdown"
    /\ stdout' = Append(stdout, Line("Done summarizing all PDFs", 0, NoOutcome, <<>>))
    /\ exit_code' = 0
    /\ main_pc' = "exited"
    /\ UNCHANGED <<cfg_vars, submitted, queue, item_vars, yield_set, pending, waiter, completed>>

Next ==
    \/ CheckApiKey
    \/ LoadPrompt
    \/ SingleStart
    \/ SingleReport
    \/ Glob
    \/ Submit
    \/ WorkerTake
    \/ \E i \in Items : SummarizePdf(i)
    \/ \E i \in Items : BackoffDone(i)
    \/ AsCompleted
    \/ Report
    \/ Done

Spec == Init /\ [][Next]_vars

\* ------------------------------------------------------------------------
\* the steps of the main thread
MainThread ==
    \/ CheckApiKey
    \/ LoadPrompt
    \/ SingleStart
    \/ SingleReport
    \/ Glob
    \/ Submit
    \/ AsCompleted
    \/ Report
    \/ Done

\* The main thread and the idle threads of the pool keep running, every
\* summarize_pdf call returns or raises, and every time.sleep returns.
FairSpec ==
    /\ Spec
    /\ WF_vars(MainThread)
    /\ WF_vars(WorkerTake)
    /\ \A i \in Items : WF_vars(SummarizePdf(i)) /\ WF_vars(BackoffDone(i))

\* Properties

ConfigOk == api_key /\ prompt_file = "ok"
BatchEnded == pdf_arg = "all" /\ ConfigOk /\ main_pc = "exited"
Enumerated == 1..pdf_files

\* positions in stdout of the terminal notices (success or failure) of item i
ItemLines(i) == {k \in 1..Len(stdout) : stdout[k].item = i /\ stdout[k].tag \in {"ok", "err"}}
OkLines == {k \in 1..Len(stdout) : stdout[k].tag = "ok"}
ErrLines == {k \in 1..Len(stdout) : stdout[k].tag = "err"}
InCall == {i \in Items : pc[i] = "call"}
LastLine == stdout[Len(stdout)]

\* the claims' "retryable error": a message containing "429" or "RESOURCE_EXHAUSTED"
RateLimited(msg) == \E k \in 1..Len(msg) : msg[k] \in {"429", "RESOURCE_EXHAUSTED"}

\* C1: in the parallel run no item ever has two terminal notices, and when
\* the run has ended every enumerated item has exactly one, N in all.
C1_OneNoticePerItem ==
    /\ \A i \in Items : Cardinality(ItemLines(i)) <= 1
    /\ BatchEnded =>
         /\ \A i \in Enumerated : Cardinality(ItemLines(i)) = 1
         /\ Cardinality(OkLines) + Cardinality(ErrLines) = pdf_files

C1_Witness ==
    /\ BatchEnded /\ pdf_files = 2
    /\ pc[1] = "Failure" /\ pc[2] = "Success"
    /\ Cardinality(ItemLines(1)) = 1 /\ Cardinality(ItemLines(2)) = 1

\* C2: at most max_workers summarize_pdf calls are in progress at any time,
\* and a queued item leaves the queue only in a step that starts with a free
\* worker.
C2_BoundedConcurrency ==
    /\ [](Cardinality(InCall) <= max_workers)
    /\ [][\A i \in Items : pc[i] = "queued" /\ pc'[i] # "queued" => Busy < max_workers]_vars

C2_Witness ==
    /\ Cardinality(InCall) = max_workers
    /\ pdf_files > max_workers
    /\ queue # <<>>

\* C3: a wrapper whose every call raised a retryable error backs off only
\* after a failure read below the budget, fails only after a failure read at
\* or above it, never ends in Success, and makes a bounded number of calls.
MaxCalls == (RETRY_LIMIT_SECONDS + BACKOFF_SLEEP_SECONDS - 1) \div BACKOFF_SLEEP_SECONDS + 1

C3_RetryUntilBudget ==
    \A i \in Items :
       /\ pc[i] = "sleep" => RateLimited(exc[i]) /\ elapsed[i] < RETRY_LIMIT_SECONDS
       /\ pc[i] = "Failure" /\ RateLimited(outcome[i].exc) =>
             elapsed[i] >= RETRY_LIMIT_SECONDS /\ outcome[i].exc = exc[i]
       /\ writes[i] = 0 => pc[i] # "Success"
       /\ calls[i] <= MaxCalls

C3_Witness ==
    \E i \in Items :
       /\ pc[i] = "Failure" /\ RateLimited(outcome[i].exc)
       /\ calls[i] = MaxCalls /\ sleeps[i] = MaxCalls - 1
       /\ elapsed[i] = RETRY_LIMIT_SECONDS /\ writes[i] = 0

\* C4: when the first summarize_pdf call raised an error that is not
\* retryable, the wrapper is in Failure with that error, having made one
\* call and no sleep, whatever the elapsed time.
C4_NonRetryableFailsAtOnce ==
    \A i \in Items :
       calls[i] = 1 /\ exc[i] # NoExc /\ ~RateLimited(exc[i]) =>
          /\ pc[i] = "Failure"
          /\ outcome[i] = Failure(exc[i])
          /\ sleeps[i] = 0 /\ attempt[i] = 1

C4_Witness ==
    \E i \in Items :
       /\ pc[i] = "Failure" /\ calls[i] = 1 /\ sleeps[i] = 0
       /\ outcome[i].exc = <<"500", "Internal">>
       /\ elapsed[i] < RETRY_LIMIT_SECONDS

\* C5: a Success reached on call k was preceded by exactly k-1 backoff
\* sleeps of BACKOFF_SLEEP_SECONDS each, every one after a retryable error.
C5_SleepsBeforeSuccess ==
    \A i \in Items :
       pc[i] = "Success" =>
          /\ sleeps[i] = calls[i] - 1
          /\ attempt[i] = calls[i]
          /\ elapsed[i] >= sleeps[i] * BACKOFF_SLEEP_SECONDS
          /\ calls[i] > 1 => RateLimited(exc[i])
          /\ calls[i] = 1 => exc[i] = NoExc

C5_Witness ==
    \E i \in Items :
       /\ pc[i] = "Success" /\ calls[i] = 3 /\ sleeps[i] = 2
       /\ elapsed[i] = 2 * BACKOFF_SLEEP_SECONDS

\* C6: with no PDF to summarise the run creates no pool, submits nothing,
\* calls summarize_pdf never, and ends on the nothing-to-do notice as soon
\* as the list is read.
C6_EmptySetShortCircuits ==
    pdf_arg = "all" /\ pdf_files = 0 =>
       /\ executor = "none" /\ submitted = 0 /\ queue = <<>>
       /\ \A i \in Items : pc[i] = "none" /\ calls[i] = 0
       /\ main_pc \in {"start", "load_prompt", "dispatch", "exited"}
       /\ BatchEnded => exit_code = 0 /\ LastLine.tag = "No PDF files found"

C6_Witness ==
    /\ pdf_arg = "all" /\ pdf_files = 0 /\ BatchEnded
    /\ LastLine.tag = "No PDF files found"

\* C7: a run whose configuration fails (no API key, prompt file missing or
\* empty, named PDF missing, no PDF found) submits no item and makes no
\* summarize_pdf call.
ConfigFailure ==
    \/ ~api_key
    \/ prompt_file # "ok"
    \/ pdf_arg = "name" /\ ~is_file
    \/ pdf_arg = "all" /\ pdf_files = 0

C7_ConfigFailureSchedulesNothing ==
    ConfigFailure =>
       /\ submitted = 0 /\ queue = <<>> /\ executor = "none"
       /\ \A i \in Items : pc[i] = "none" /\ calls[i] = 0 /\ writes[i] = 0
       /\ main_pc = "exited" => Len(stdout) = 1

C7_Witness ==
    /\ ConfigOk /\ pdf_arg = "name" /\ ~is_file
    /\ main_pc = "exited" /\ exit_code = 1
    /\ LastLine.tag = "PDF not found"

\* C8: in the parallel run an item ending in Failure changes nothing of any
\* other item, of the pool or of main; and the run ends only with exit
\* status 0, after every item has its own terminal outcome and its notice.
ItemState(j) == <<pc[j], attempt[j], elapsed[j], calls[j], sleeps[j], exc[j], outcome[j], writes[j]>>

C8_FailureIsIsolated ==
    /\ [](BatchEnded /\ pdf_files > 0 =>
            /\ exit_code = 0
            /\ LastLine.tag = "Done summarizing all PDFs"
            /\ \A i \in Enumerated :
                  /\ Terminal(i)
                  /\ \E k \in ItemLines(i) :
                        /\ stdout[k].exc = outcome[i].exc
                        /\ stdout[k].file = outcome[i].file
                        /\ stdout[k].tag = (IF pc[i] = "Success" THEN "ok" ELSE "err"))
    /\ [][\A i \in Items : pc[i] # "Failure" /\ pc'[i] = "Failure" =>
             /\ \A j \in Items \ {i} : ItemState(j)' = ItemState(j)
             /\ UNCHANGED <<main_pc, exit_code, executor, queue, submitted, stdout>>]_vars

C8_Witness ==
    /\ BatchEnded /\ pdf_files = 2 /\ exit_code = 0
    /\ pc[1] = "Failure" /\ pc[2] = "Success" /\ calls[2] > 1
    /\ stdout[Len(stdout) - 1].item = 2

\* C9 as stated: the final notice carries the counts of succeeded and failed items.
SucceededItems == {i \in Enumerated : pc[i] = "Success"}
FailedItems == {i \in Enumerated : pc[i] = "Failure"}

C10_SameRetrySemantics ==
    \A i \in Items :
       calls[i] >= 1 =>
          /\ sleeps[i] = calls[i] - 1
          /\ attempt[i] = (IF pc[i] = "sleep" THEN calls[i] + 1 ELSE calls[i])
          /\ pc[i] = "sleep" <=>
               /\ writes[i] = 0 /\ exc[i] # NoExc
               /\ RateLimited(exc[i]) /\ elapsed[i] < RETRY_LIMIT_SECONDS
               /\ outcome[i] = NoOutcome
               /\ attempt[i] > calls[i]
          /\ pc[i] = "Success" <=> writes[i] = 1
          /\ pc[i] = "Success" => outcome[i] = Success(i)
          /\ pc[i] = "Failure" <=> outcome[i].kind = "Failure"
          /\ pc[i] = "Failure" =>
               /\ outcome[i] = Failure(exc[i]) /\ writes[i] = 0
               /\ ~RateLimited(exc[i]) \/ elapsed[i] >= RETRY_LIMIT_SECONDS

C10_Witness ==
    /\ pdf_arg = "name" /\ main_pc = "exited"
    /\ pc[1] = "Failure" /\ calls[1] = 2 /\ sleeps[1] = 1
    /\ RateLimited(outcome[1].exc) /\ elapsed[1] >= RETRY_LIMIT_SECONDS
    /\ LastLine.tag = "Error summarizing" /\ LastLine.exc = outcome[1].exc

\* number of writes the run has made to an output location
RECURSIVE SumWrites(_, _)
SumWrites(loc, S) ==
    IF S = {} THEN 0
    ELSE LET i == CHOOSE x \in S : TRUE
         IN  (IF OutputFile(i) = loc THEN writes[i] ELSE 0) + SumWrites(loc, S \ {i})

WritesTo(loc) == SumWrites(loc, {i \in Items : pc[i] # "none"})

\* C11: two distinct enumerated items in Success have distinct output
\* locations, and the location of an item in Success has been written
\* exactly once in the run, by that item's one successful call.
C11_OneLocationPerSuccess ==
    \A i \in Enumerated :
       pc[i] = "Success" =>
          /\ writes[i] = 1
          /\ WritesTo(OutputFile(i)) = 1
          /\ \A j \in Enumerated \ {i} : pc[j] = "Success" => OutputFile(j) # OutputFile(i)

\* C12: an item starts a backoff sleep only out of a call that raised a
\* rate-limit error read below the budget, leaves the sleep only into
\* another call, and once in Success or Failure nothing of it changes again.
C12_RetryStateMachine ==
    [][\A i \in Items :
          /\ pc[i] # "sleep" /\ pc'[i] = "sleep" =>
                /\ pc[i] = "call"
                /\ RateLimited(exc'[i]) /\ elapsed'[i] < RETRY_LIMIT_SECONDS
          /\ pc[i] = "sleep" /\ pc'[i] # "sleep" => pc'[i] = "call"
          /\ pc[i] = "call" /\ pc'[i] # "call" => pc'[i] \in {"sleep", "Success", "Failure"}
          /\ Terminal(i) => ItemState(i)' = ItemState(i)]_vars

C12_Witness ==
    /\ BatchEnded /\ pdf_files = 2
    /\ pc[1] = "Failure" /\ sleeps[1] = 1 /\ RateLimited(outcome[1].exc)
    /\ pc[2] = "Success" /\ sleeps[2] = 1
    /\ stdout[Len(stdout) - 1].item = 1

\* C13: the queue never holds an item twice and holds exactly the items
\* that are submitted and not started; an item enters the wrapper once,
\* out of the queue (or from main on the single-item path); a further call
\* of an item starts only out of its own finished sleep after a failed
\* call; a started item is never queued again.
InQueue(i) == {k \in 1..Len(queue) : queue[k] = i}

C13_OneInvocationPerItem ==
    /\ [](/\ \A i \in Items : Cardinality(InQueue(i)) = (IF pc[i] = "queued" THEN 1 ELSE 0)
          /\ submitted = Cardinality({i \in Items : pc[i] # "none" /\ pdf_arg = "all"}))
    /\ [][/\ queue # <<>> /\ queue' # queue /\ queue' = Tail(queue) =>
                pc[Head(queue)] = "queued" /\ pc'[Head(queue)] = "call"
          /\ \A i \in Items :
                /\ calls'[i] # calls[i] =>
                      \/ /\ calls[i] = 0 /\ calls'[i] = 1
                         /\ pc[i] = (IF pdf_arg = "all" THEN "queued" ELSE "none")
                      \/ /\ pc[i] = "sleep" /\ pc'[i] = "call"
                         /\ exc[i] # NoExc /\ writes[i] = 0
                         /\ calls'[i] = calls[i] + 1 /\ sleeps'[i] = sleeps[i] + 1
                /\ pc'[i] = "queued" => pc[i] \in {"none", "queued"}]_vars

C13_Witness ==
    /\ max_workers = 1 /\ pdf_files = 2
    /\ pc[1] = "call" /\ calls[1] = 2 /\ sleeps[1] = 1
    /\ pc[2] = "queued" /\ queue = <<2>>

\* C14: the items that have started and not ended, in a call or in a
\* backoff sleep, never outnumber the pool's threads, and a queued item
\* starts only in a step that begins with fewer of them than threads.
InFlight == {i \in Items : pc[i] \in {"call", "sleep"}}
Sleeping == {i \in Items : pc[i] = "sleep"}

C14_SlotHeldWhileSleeping ==
    /\ [](Cardinality(InFlight) <= max_workers)
    /\ [][\A i \in Items :
             pc[i] = "queued" /\ pc'[i] # "queued" => Cardinality(InFlight) < max_workers]_vars

C14_Witness ==
    /\ Cardinality(Sleeping) = max_workers
    /\ queue # <<>>

\* C15: an item in Failure carries the error its last summarize_pdf call
\* raised, also when earlier calls raised other errors, and every notice
\* printed for it shows that error.
NoticeLines(i) == {k \in 1..Len(stdout) : stdout[k].item = i}

C15_FailureCarriesLastError ==
    \A i \in Items :
       pc[i] = "Failure" =>
          /\ outcome[i].kind = "Failure"
          /\ outcome[i].exc = exc[i] /\ exc[i] \in Messages
          /\ \A k \in NoticeLines(i) :
                /\ stdout[k].exc = exc[i]
                /\ stdout[k].tag \in {"err", "Error summarizing"}

C15_Witness ==
    \E i \in Items :
       /\ pc[i] = "Failure" /\ calls[i] >= 2
       /\ outcome[i].exc = <<"500", "Internal">>
       /\ NoticeLines(i) # {}
       /\ pdf_arg = "all"

\* C16: every notice of the pooled run comes in the order in which the
\* wrappers terminated: when b has its notice and a terminated before b,
\* a has an earlier notice, also when both terminated before the reporter
\* loop started.
TerminatedAt(i) == {k \in 1..Len(completed) : completed[k] = i}
CollectAt == {k \in 1..Len(completed) : completed[k] = 0}
TerminatedBefore(a, b) == \E ka \in TerminatedAt(a), kb \in TerminatedAt(b) : ka < kb
AfterCollect(b) == \E km \in CollectAt, kb \in TerminatedAt(b) : km < kb
NoticedBefore(a, b) == \E ka \in ItemLines(a) : \A kb \in ItemLines(b) : ka < kb

C16_TerminationOrder ==
    pdf_arg = "all" =>
       \A a, b \in Items :
          (TerminatedBefore(a, b) /\ ItemLines(b) # {}) => NoticedBefore(a, b)

\* C16, amended: the order of the notices is the order of termination for
\* every item that terminates once as_completed is called; the items that
\* terminated before that call have their notices before all the others.
C16_OrderAfterCollect ==
    pdf_arg = "all" =>
       \A a, b \in Items :
          (TerminatedBefore(a, b) /\ AfterCollect(b) /\ ItemLines(b) # {})
             => NoticedBefore(a, b)

C16_Witness ==
    /\ pdf_arg = "all"
    /\ AfterCollect(1) /\ AfterCollect(2)
    /\ TerminatedBefore(2, 1)
    /\ ItemLines(1) # {} /\ NoticedBefore(2, 1)

\* C17: the completion notice of the pooled run is printed only when every
\* submitted item is terminal and reported: none waits in the queue, is in
\* a call, sleeps, or lacks its notice, however long the item took.
DoneLines == {k \in 1..Len(stdout) : stdout[k].tag = "Done summarizing all PDFs"}

C17_DoneOnlyWhenAllTerminal ==
    DoneLines # {} =>
       /\ submitted = pdf_files
       /\ queue = <<>>
       /\ \A i \in Enumerated :
             /\ pc[i] \in {"Success", "Failure"}
             /\ ItemLines(i) # {}
             /\ \A k \in ItemLines(i), d \in DoneLines : k < d

C17_Witness ==
    /\ DoneLines # {}
    /\ pdf_files = MaxItems
    /\ \E i \in Enumerated :
          /\ elapsed[i] > RETRY_LIMIT_SECONDS
          /\ sleeps[i] >= 1
    /\ \E i \in Enumerated : elapsed[i] < RETRY_LIMIT_SECONDS

\* C18: the budget is read when a failure is observed, before the backoff
\* sleep: a call can start once the budget is spent, but never as late as
\* RETRY_LIMIT_SECONDS + BACKOFF_SLEEP_SECONDS after the wrapper started;
\* a wrapper whose calls all took no time and raised retryable errors makes
\* RETRY_LIMIT_SECONDS / BACKOFF_SLEEP_SECONDS + 1 calls, with one sleep
\* between two calls.
FullRetries == RETRY_LIMIT_SECONDS \div BACKOFF_SLEEP_SECONDS
Instantaneous(i) == elapsed[i] = sleeps[i] * BACKOFF_SLEEP_SECONDS

C18_BudgetReadBeforeSleep ==
    \A i \in Items :
       /\ pc[i] = "call" => elapsed[i] < RETRY_LIMIT_SECONDS + BACKOFF_SLEEP_SECONDS
       /\ (pc[i] = "Failure" /\ RateLimited(outcome[i].exc) /\ Instantaneous(i)) =>
             /\ calls[i] = FullRetries + 1
             /\ sleeps[i] = FullRetries
             /\ elapsed[i] = RETRY_LIMIT_SECONDS

C18_Witness ==
    \E i \in Items :
       /\ pc[i] = "Failure" /\ RateLimited(outcome[i].exc) /\ Instantaneous(i)
       /\ calls[i] = 13 /\ sleeps[i] = 12
       /\ elapsed[i] >= RETRY_LIMIT_SECONDS

\* C19: under fair scheduling every item handed to the pool ends in Success
\* or Failure, the pooled run prints its completion notice, and main returns:
\* no item stays in the queue, in a call or asleep for ever.
C19_EveryItemEnds ==
    <>[](/\ main_pc = "exited"
         /\ \A i \in Items : pc[i] \in {"none", "Success", "Failure"}
         /\ executor # "none" =>
               /\ DoneLines # {}
               /\ \A i \in Enumerated : pc[i] \in {"Success", "Failure"})

C19_Witness ==
    /\ DoneLines # {}
    /\ pdf_files > max_workers
    /\ \E i \in Enumerated : pc[i] = "Failure" /\ sleeps[i] >= 1
    /\ \E i \in Enumerated : pc[i] = "Success"

\* C20: a summarize_pdf call that raises writes nothing: an item in a call
\* or asleep has written nothing, an item in Success has written once
\* whatever the number of its calls, and the output location of an item in
\* Failure has not been written during the run.
C20_FailureLeavesNoWrite ==
    \A i \in Items :
       /\ pc[i] \in {"call", "sleep"} => writes[i] = 0
       /\ pc[i] = "Success" => writes[i] = 1
       /\ pc[i] = "Failure" => writes[i] = 0 /\ WritesTo(OutputFile(i)) = 0

====
